---- MODULE Spec2Model ----
(***************************************************************************)
(* Model of frontend/main.js: the incremental disclosure state machine of  *)
(* the course generator client (outline -> week -> day).                   *)
(*                                                                         *)
(* JavaScript objects are references.  A handler suspended at an `await`   *)
(* keeps the objects it captured (`weeks`, `week`, `day`) and resumes in a *)
(* later step, so the course objects live in a heap (`courses`) indexed by *)
(* the order of their creation, and every in-flight fetch records which    *)
(* objects its continuation will write to.                                 *)
(***************************************************************************)
EXTENDS Integers, Sequences, FiniteSets, Bags, TLC

\* ------------------------------------------------------------------ bounds
\* Requests to the generation endpoints (outline, week, day) made in a run.
MaxRequests == 4
\* Weeks in the course of an outline response.
NumWeeks == 2
\* Days in a week-detail response.
NumDays == 2
\* Auto-dismiss timers that may be pending at the same time.
MaxTimers == 2

\* ------------------------------------------------------------------ state
VARIABLES
    currentCourse,  \* 0 (null) or the index in `courses` of the current course
    courses,        \* heap of course objects, in order of creation
    active,         \* the pages whose class list holds 'active'
    timeline,       \* content of #timelineContent as last rendered
    outlineFetch,   \* <<>> or <<params>>: the pending outline request
    weekFetches,    \* bag of pending /api/generate/week requests
    dayFetches,     \* bag of pending /api/generate/day requests
    toast,          \* the #toast element
    timers,         \* pending setTimeout callbacks of showToast
    requests        \* fetch calls made to the generation endpoints so far

vars == <<currentCourse, courses, active, timeline, outlineFetch, weekFetches,
          dayFetches, toast, timers, requests>>

\* ---------------------------------------------------------- JS data values
\* The value of a property that was never assigned.
Undefined == "undefined"

\* week._days is absent (<<>>) or holds one array of Day records (<<days>>).
NoDays == <<>>

HasDays(week) == week._days # NoDays

DaysOf(week) == week._days[1]

\* A Week of an outline response: no client-only field is set yet.
NewWeek(n) ==
    [week |-> n, _days |-> NoDays, _expanded |-> FALSE, _loading |-> FALSE]

\* A Day of a week-detail response: no detail field, not loaded.
NewDay(n) ==
    [day |-> n, _loaded |-> FALSE, description |-> Undefined,
     table_of_contents |-> Undefined, resources |-> Undefined]

\* The bodies /api/generate/day can answer with (the backend generates text,
\* so two answers for the same day need not agree).
DayDetails ==
    { [description |-> "descA", table_of_contents |-> "tocA", resources |-> "resA"],
      [description |-> "descB", table_of_contents |-> "tocB", resources |-> "resB"] }

\* Object.assign(target, source): source's properties overwrite target's.
ObjectAssign(target, source) == source @@ target

\* weeks.findIndex(w => w.week === weekNum); 0 stands for -1 (not found).
FindWeekIndex(weeks, weekNum) ==
    LET hits == {i \in 1..Len(weeks) : weeks[i].week = weekNum}
    IN IF hits = {} THEN 0 ELSE CHOOSE i \in hits : \A j \in hits : i <= j

\* week._days.find(d => d.day === dayNum), as an index; 0 when not found.
FindDayIndex(days, dayNum) ==
    LET hits == {i \in 1..Len(days) : days[i].day = dayNum}
    IN IF hits = {} THEN 0 ELSE CHOOSE i \in hits : \A j \in hits : i <= j

\* ------------------------------------------------------------------ goal
Space == " "

\* What the user may have typed in #goal, as sequences of characters.
GoalInputs == { <<>>, <<Space, Space>>, <<"R">>, <<Space, "R", Space>> }

\* How loadOllamaModels can end: no answer from /api/models, an empty list, or
\* a list of model names.
ModelsOutcomes ==
    { [ok |-> FALSE, models |-> <<>>],
      [ok |-> TRUE, models |-> <<>>],
      [ok |-> TRUE, models |-> <<"llama3">>] }

\* loadOllamaModels: the values of the options it leaves in #model.  With no
\* models, or in the catch block, the only option has the value "".
LoadOllamaModels(outcome) ==
    IF ~outcome.ok THEN <<"">>
    ELSE IF Len(outcome.models) = 0 THEN <<"">>
    ELSE outcome.models

\* The value of a <select> nobody changed: that of its first option.
SelectValue(options) == options[1]

\* What #model's value may be at submit.
ModelInputs == { SelectValue(LoadOllamaModels(o)) : o \in ModelsOutcomes }

RECURSIVE TrimStart(_)
TrimStart(s) ==
    IF s # <<>> /\ Head(s) = Space THEN TrimStart(Tail(s)) ELSE s

RECURSIVE TrimEnd(_)
TrimEnd(s) ==
    IF s # <<>> /\ s[Len(s)] = Space THEN TrimEnd(SubSeq(s, 1, Len(s) - 1)) ELSE s

\* Trim that removes nothing.
Trim_KeepsSpaces(s) == s

\* String.prototype.trim
Trim(s) == TrimEnd(TrimStart(s))

\* ------------------------------------------------------------- rendering
\* renderDayCard: the card of one day.  `loaded` is the 'loaded' class and the
\* day-content-area; `spinner` is a "Loading content..." element, which no
\* render produces (loadDayContent appends it to the card afterwards).
RenderDayCard(day, weekNum) ==
    [week |-> weekNum, day |-> day.day, loaded |-> day._loaded, spinner |-> FALSE]

\* renderWeekCard: the card of one week, with its day cards when the week is
\* expanded and has days, else with the loading indicator when it is loading.
RenderWeekCard(week) ==
    LET showDays == week._expanded /\ HasDays(week)
    IN [week     |-> week.week,
        expanded |-> week._expanded,
        spinner  |-> ~showDays /\ week._loading,
        days     |-> IF showDays
                     THEN [i \in 1..Len(DaysOf(week)) |->
                              RenderDayCard(DaysOf(week)[i], week.week)]
                     ELSE <<>>]

\* renderWeeklyTimeline(weeks): the new content of #timelineContent.  `course`
\* names the course object whose weeks (titles, concepts) the cards show.
RenderWeeklyTimeline(heap, c) ==
    [course |-> c,
     cards  |-> [i \in 1..Len(heap[c].weeks) |-> RenderWeekCard(heap[c].weeks[i])]]

\* The week cards and the day cards a click can land on.
WeekCardNums == {timeline.cards[i].week : i \in 1..Len(timeline.cards)}

DayCardIds ==
    UNION { {<<timeline.cards[i].week, timeline.cards[i].days[j].day>> :
                j \in 1..Len(timeline.cards[i].days)} :
            i \in 1..Len(timeline.cards) }

\* $(`#day-${weekNum}-${dayNum}`).innerHTML += spinner, on the first element
\* with that id (week numbers are unique in a rendered timeline).
AppendDaySpinner(tl, weekNum, dayNum) ==
    [tl EXCEPT !.cards =
        [i \in 1..Len(tl.cards) |->
            [tl.cards[i] EXCEPT !.days =
                [j \in 1..Len(tl.cards[i].days) |->
                    IF tl.cards[i].week = weekNum /\ tl.cards[i].days[j].day = dayNum
                    THEN [tl.cards[i].days[j] EXCEPT !.spinner = TRUE]
                    ELSE tl.cards[i].days[j]]]]]

\* ------------------------------------------------------------ page, toast
Pages == {"landing", "loading", "courseView"}

\* ShowPage that leaves 'active' on the landing page.
ShowPage_KeepsLanding(name) == {"landing"} \cup (IF name \in Pages THEN {name} ELSE {})

\* showPage(name): remove 'active' from every page, add it to pages[name].
ShowPage(name) == IF name \in Pages THEN {name} ELSE {}

\* showToast(message, isError): the element's text, icon and 'visible' class.
\* Every call also starts one timer (counted in `timers` by the caller).
ShowToast(message, isError) ==
    [visible |-> TRUE, message |-> message, isError |-> isError]

MsgNoGoal == "Please enter a learning goal"
MsgNoModel == "Please select an Ollama model"
MsgOutlineOk == "Course outline generated! Click weeks to load daily breakdown."
MsgOutlineFallback == "Failed to generate course. Is Ollama running?"
MsgWeekFailed == "Failed to load week details. Click to retry."
MsgDayFailed == "Failed to load day details."

\* ------------------------------------------------------------------- Init
\* The page as loaded: no course, the landing view, an empty timeline, a
\* hidden toast, nothing pending.
Init ==
    /\ currentCourse = 0
    /\ courses = <<>>
    /\ active = {"landing"}
    /\ timeline = [course |-> 0, cards |-> <<>>]
    /\ outlineFetch = <<>>
    /\ weekFetches = EmptyBag
    /\ dayFetches = EmptyBag
    /\ toast = [visible |-> FALSE, message |-> "", isError |-> TRUE]
    /\ timers = 0
    /\ requests = 0

\* ------------------------------------------------------------------ heap
\* A course object nothing refers to any more.  The JavaScript runtime frees
\* it; here its slot in the heap is kept (indices are never reused) and its
\* content is dropped.
Collected == [weeks |-> <<>>, requestParams |-> [goal |-> <<>>, model |-> ""]]

\* Course object c is referred to by currentCourse or by the continuation of
\* a pending request.
Referenced(c, cur, wf, df) ==
    \/ c = cur
    \/ \E r \in BagToSet(wf) : r.course = c
    \/ \E r \in BagToSet(df) : r.course = c

Collect(heap, cur, wf, df) ==
    [c \in 1..Len(heap) |-> IF Referenced(c, cur, wf, df) THEN heap[c] ELSE Collected]

\* ------------------------------------------------- handleGenerate (outline)
HttpStatuses == {404, 500}

\* `Server error: ${response.status}`
StatusText(status) == IF status = 404 THEN "Server error: 404" ELSE "Server error: 500"

\* How the outline request can end: a 2xx response with a course, a 2xx
\* response whose body is not JSON, a non-2xx response with or without a
\* 'detail' in its body, or no response at all (fetch rejects).
OutlineOutcomes ==
    [kind : {"ok"}, nweeks : {NumWeeks}]
    \cup [kind : {"parse"}, message : {"Unexpected end of JSON input"}]
    \cup [kind : {"http"}, status : HttpStatuses, detail : {Undefined, "model not found"}]
    \cup [kind : {"network"}, message : {"Failed to fetch"}]

\* ErrorMessage with the body of a non-2xx response never read.
ErrorMessage_IgnoresDetail(outcome) ==
    IF outcome.kind = "http" THEN StatusText(outcome.status) ELSE outcome.message

\* The message of the Error that reaches the catch block.
ErrorMessage(outcome) ==
    IF outcome.kind = "http"
    THEN IF outcome.detail # Undefined /\ outcome.detail # ""
         THEN outcome.detail
         ELSE StatusText(outcome.status)
    ELSE outcome.message

\* showToast(error.message || 'Failed to generate course. Is Ollama running?')
OutlineFailureToast(outcome) ==
    IF ErrorMessage(outcome) # "" THEN ErrorMessage(outcome) ELSE MsgOutlineFallback

\* Submit of #courseForm, up to the await of the outline request.
HandleGenerate(goalInput, modelInput) ==
    LET goal == Trim(goalInput) IN
    /\ "landing" \in active
    /\ IF goal = <<>>
       THEN /\ timers < MaxTimers
            /\ toast' = ShowToast(MsgNoGoal, TRUE)
            /\ timers' = timers + 1
            /\ UNCHANGED <<active, outlineFetch, requests>>
       ELSE IF modelInput = ""
       THEN /\ timers < MaxTimers
            /\ toast' = ShowToast(MsgNoModel, TRUE)
            /\ timers' = timers + 1
            /\ UNCHANGED <<active, outlineFetch, requests>>
       ELSE /\ requests < MaxRequests
            /\ requests' = requests + 1
            /\ active' = ShowPage("loading")
            /\ outlineFetch' = <<[goal |-> goal, model |-> modelInput]>>
            /\ UNCHANGED <<toast, timers>>
    /\ UNCHANGED <<currentCourse, courses, timeline, weekFetches, dayFetches>>

\* handleGenerate after the await: the response (or the rejection) arrives.
OutlineResolve(outcome) ==
    /\ outlineFetch # <<>>
    /\ timers < MaxTimers
    /\ outlineFetch' = <<>>
    /\ timers' = timers + 1
    /\ IF outcome.kind = "ok"
       THEN LET course == [weeks |-> [n \in 1..outcome.nweeks |-> NewWeek(n)],
                           requestParams |-> outlineFetch[1]]
                heap == Append(courses, course)
            IN /\ courses' = Collect(heap, Len(heap), weekFetches, dayFetches)
               /\ currentCourse' = Len(heap)
               /\ timeline' = RenderWeeklyTimeline(heap, Len(heap))
               /\ active' = ShowPage("courseView")
               /\ toast' = ShowToast(MsgOutlineOk, FALSE)
       ELSE /\ toast' = ShowToast(OutlineFailureToast(outcome), TRUE)
            /\ active' = ShowPage("landing")
            /\ UNCHANGED <<currentCourse, courses, timeline>>
    /\ UNCHANGED <<weekFetches, dayFetches, requests>>

\* Click on #backBtn (a control of the course view).
Back ==
    /\ "courseView" \in active
    /\ active' = ShowPage("landing")
    /\ UNCHANGED <<currentCourse, courses, timeline, outlineFetch, weekFetches,
                   dayFetches, toast, timers, requests>>

\* The setTimeout callback of one showToast call.
ToastTimeout ==
    /\ timers > 0
    /\ timers' = timers - 1
    /\ toast' = [toast EXCEPT !.visible = FALSE]
    /\ UNCHANGED <<currentCourse, courses, active, timeline, outlineFetch,
                   weekFetches, dayFetches, requests>>

\* --------------------------------------------- toggleWeekExpand (week detail)
\* A pending week request: its continuation holds `weeks` (of course object
\* `course`) and `week` (= weeks[index]).
WeekFetch(c, i) == [course |-> c, index |-> i]

\* A pending day request: its continuation holds `day`, the Day object found at
\* courses[course].weeks[index]._days[dayIndex] when the request was made.
\* `live` tells whether that object is still in the week's _days array: an
\* assignment to week._days puts other objects there, and the continuation
\* then writes to an object nothing else refers to.
DayFetch(c, i, j, live) == [course |-> c, index |-> i, dayIndex |-> j, live |-> live]

\* week._days = ... detaches the Day objects pending day requests hold.
DetachDays(bag, c, i) ==
    LET old == BagToSet(bag)
        hit(e) == e.course = c /\ e.index = i
        new == {IF hit(e) THEN [e EXCEPT !.live = FALSE] ELSE e : e \in old}
        alive(t) == [t EXCEPT !.live = TRUE]
    IN [t \in new |->
          (IF t \in old THEN bag[t] ELSE 0)
          + (IF hit(t) /\ alive(t) \in old THEN bag[alive(t)] ELSE 0)]

\* The `days` a week-detail response can carry.
WeekDaysResponses == {[j \in 1..NumDays |-> NewDay(j)]}

\* ToggleBranch without the reuse of the days already fetched.
ToggleBranch_NoCache(week) ==
    IF week._expanded THEN "collapse" ELSE "fetch"

\* The path toggleWeekExpand takes for the week it found.
ToggleBranch(week) ==
    IF week._expanded THEN "collapse"
    ELSE IF ~HasDays(week) THEN "fetch"
    ELSE "expand"

\* WeekOnSuccess that leaves _loading as it is.
WeekOnSuccess_KeepsLoading(week, days) ==
    [week EXCEPT !._days = <<days>>, !._expanded = TRUE]

\* The try block after a 2xx response: data.days || [] is stored.
WeekOnSuccess(week, days) ==
    [week EXCEPT !._days = <<days>>, !._loading = FALSE, !._expanded = TRUE]

\* WeekOnFailure that expands the week as the try block does.
WeekOnFailure_Expands(week) ==
    [week EXCEPT !._loading = FALSE, !._expanded = TRUE]

\* WeekOnFailure that leaves _loading as it is.
WeekOnFailure_KeepsLoading(week) == week

\* The catch block.
WeekOnFailure(week) == [week EXCEPT !._loading = FALSE]

\* Click on the header of the card of week weekNum, up to the first await or
\* the return.
ToggleWeekExpand(weekNum) ==
    LET c == currentCourse
        i == FindWeekIndex(courses[c].weeks, weekNum)
    IN
    /\ "courseView" \in active
    /\ weekNum \in WeekCardNums
    /\ IF i = 0
       THEN UNCHANGED <<courses, timeline, weekFetches, requests>>
       ELSE LET branch == ToggleBranch(courses[c].weeks[i])
                heap == CASE branch = "collapse" ->
                                [courses EXCEPT ![c].weeks[i]._expanded = FALSE]
                          [] branch = "fetch" ->
                                [courses EXCEPT ![c].weeks[i]._loading = TRUE]
                          [] OTHER ->
                                [courses EXCEPT ![c].weeks[i]._expanded = TRUE]
            IN /\ branch = "fetch" => requests < MaxRequests
               /\ requests' = IF branch = "fetch" THEN requests + 1 ELSE requests
               /\ courses' = heap
               /\ timeline' = RenderWeeklyTimeline(heap, c)
               /\ weekFetches' = IF branch = "fetch"
                                 THEN weekFetches (+) SetToBag({WeekFetch(c, i)})
                                 ELSE weekFetches
    /\ UNCHANGED <<currentCourse, active, outlineFetch, dayFetches, toast, timers>>

\* toggleWeekExpand after the await, 2xx response: store the days, expand,
\* render the captured `weeks`.
WeekFetchSuccess(req, days) ==
    LET c == req.course
        i == req.index
        heap == [courses EXCEPT ![c].weeks[i] = WeekOnSuccess(@, days)]
    IN
    /\ BagIn(req, weekFetches)
    /\ weekFetches' = weekFetches (-) SetToBag({req})
    /\ courses' = Collect(heap, currentCourse, weekFetches (-) SetToBag({req}),
                        DetachDays(dayFetches, c, i))
    /\ dayFetches' = DetachDays(dayFetches, c, i)
    /\ timeline' = RenderWeeklyTimeline(heap, c)
    /\ UNCHANGED <<currentCourse, active, outlineFetch, toast, timers, requests>>

\* toggleWeekExpand after the await, rejection or non-2xx response: the catch
\* block, then the render of the captured `weeks`.
WeekFetchFailure(req) ==
    LET c == req.course
        i == req.index
        heap == [courses EXCEPT ![c].weeks[i] = WeekOnFailure(@)]
    IN
    /\ BagIn(req, weekFetches)
    /\ timers < MaxTimers
    /\ weekFetches' = weekFetches (-) SetToBag({req})
    /\ courses' = Collect(heap, currentCourse, weekFetches (-) SetToBag({req}), dayFetches)
    /\ toast' = ShowToast(MsgWeekFailed, TRUE)
    /\ timers' = timers + 1
    /\ timeline' = RenderWeeklyTimeline(heap, c)
    /\ UNCHANGED <<currentCourse, active, outlineFetch, dayFetches, requests>>

\* ------------------------------------------------ loadDayContent (day detail)
\* LoadDayBranch without the test of day._loaded.
LoadDayBranch_NoLoadedCheck(weeks, weekNum, dayNum) ==
    LET i == FindWeekIndex(weeks, weekNum) IN
    IF i = 0 THEN "noweek"
    ELSE IF ~HasDays(weeks[i]) THEN "nodays"
    ELSE IF FindDayIndex(DaysOf(weeks[i]), dayNum) = 0 THEN "noday"
    ELSE "fetch"

\* The path loadDayContent takes before its request.
LoadDayBranch(weeks, weekNum, dayNum) ==
    LET i == FindWeekIndex(weeks, weekNum) IN
    IF i = 0 THEN "noweek"
    ELSE IF ~HasDays(weeks[i]) THEN "nodays"
    ELSE LET j == FindDayIndex(DaysOf(weeks[i]), dayNum) IN
         IF j = 0 THEN "noday"
         ELSE IF DaysOf(weeks[i])[j]._loaded THEN "loaded"
         ELSE "fetch"

\* DayOnSuccess that sets the flag without merging the details.
DayOnSuccess_FlagOnly(day, details) == [day EXCEPT !._loaded = TRUE]

\* Object.assign(day, details); day._loaded = true
DayOnSuccess(day, details) ==
    [ObjectAssign(day, details) EXCEPT !._loaded = TRUE]

\* LoadDayContent whose click also reaches the header of the parent week and
\* flips the week, with no request for the day.
LoadDayContent_TogglesWeek(weekNum, dayNum) ==
    LET c == currentCourse
        i == FindWeekIndex(courses[c].weeks, weekNum)
    IN
    /\ "courseView" \in active
    /\ <<weekNum, dayNum>> \in DayCardIds
    /\ courses' = IF i = 0 THEN courses
                  ELSE [courses EXCEPT ![c].weeks[i]._expanded = ~@]
    /\ UNCHANGED <<currentCourse, active, timeline, outlineFetch, weekFetches,
                   dayFetches, toast, timers, requests>>

\* Click on the card of day dayNum of week weekNum, up to the await or the
\* return.  The card exists (it was clicked), so $(`#day-...`) finds it.
LoadDayContent(weekNum, dayNum) ==
    LET c == currentCourse
        weeks == courses[c].weeks
        branch == LoadDayBranch(weeks, weekNum, dayNum)
        i == FindWeekIndex(weeks, weekNum)
        j == FindDayIndex(DaysOf(weeks[i]), dayNum)
    IN
    /\ "courseView" \in active
    /\ <<weekNum, dayNum>> \in DayCardIds
    /\ IF branch = "fetch"
       THEN /\ requests < MaxRequests
            /\ requests' = requests + 1
            /\ timeline' = AppendDaySpinner(timeline, weekNum, dayNum)
            /\ dayFetches' = dayFetches (+) SetToBag({DayFetch(c, i, j, TRUE)})
       ELSE UNCHANGED <<timeline, dayFetches, requests>>
    /\ UNCHANGED <<currentCourse, courses, active, outlineFetch, weekFetches,
                   toast, timers>>

\* loadDayContent after the await, 2xx response: merge the details into the
\* captured `day`, render the weeks of the course that is current now.
DayFetchSuccess(req, details) ==
    LET c == req.course
        i == req.index
        j == req.dayIndex
        heap == IF req.live
                THEN [courses EXCEPT ![c].weeks[i]._days[1][j] = DayOnSuccess(@, details)]
                ELSE courses
    IN
    /\ BagIn(req, dayFetches)
    /\ dayFetches' = dayFetches (-) SetToBag({req})
    /\ courses' = Collect(heap, currentCourse, weekFetches, dayFetches (-) SetToBag({req}))
    /\ timeline' = RenderWeeklyTimeline(heap, currentCourse)
    /\ UNCHANGED <<currentCourse, active, outlineFetch, weekFetches, toast, timers,
                   requests>>

\* loadDayContent after the await, rejection or non-2xx response: the catch
\* block only.
DayFetchFailure(req) ==
    /\ BagIn(req, dayFetches)
    /\ timers < MaxTimers
    /\ dayFetches' = dayFetches (-) SetToBag({req})
    /\ toast' = ShowToast(MsgDayFailed, TRUE)
    /\ timers' = timers + 1
    /\ courses' = Collect(courses, currentCourse, weekFetches,
                        dayFetches (-) SetToBag({req}))
    /\ UNCHANGED <<currentCourse, active, timeline, outlineFetch, weekFetches, requests>>

\* ------------------------------------------------------------------- Next
Next ==
    \/ \E g \in GoalInputs, m \in ModelInputs : HandleGenerate(g, m)
    \/ \E o \in OutlineOutcomes : OutlineResolve(o)
    \/ Back
    \/ \E w \in 1..NumWeeks : ToggleWeekExpand(w)
    \/ \E r \in BagToSet(weekFetches), days \in WeekDaysResponses : WeekFetchSuccess(r, days)
    \/ \E r \in BagToSet(weekFetches) : WeekFetchFailure(r)
    \/ \E w \in 1..NumWeeks, d \in 1..NumDays : LoadDayContent(w, d)
    \/ \E r \in BagToSet(dayFetches), det \in DayDetails : DayFetchSuccess(r, det)
    \/ \E r \in BagToSet(dayFetches) : DayFetchFailure(r)
    \/ ToastTimeout

Spec == Init /\ [][Next]_vars

\* A response (or a failure) of pending request r arrives.
WeekFetchResolves(r) ==
    \/ \E days \in WeekDaysResponses : WeekFetchSuccess(r, days)
    \/ WeekFetchFailure(r)

DayFetchResolves(r) ==
    \/ \E det \in DayDetails : DayFetchSuccess(r, det)
    \/ DayFetchFailure(r)

\* The week-detail requests a run can make.
WeekFetchIds == [course : 1..MaxRequests, index : 1..NumWeeks]

\* The steps of the program when the form is submitted filled in and the
\* outline request gets a course or no response at all.  All the handlers
\* run as in Next; only the toast texts of the other inputs are left out.
FilledGoals == {g \in GoalInputs : Trim(g) # <<>>}

ChosenModels == {m \in ModelInputs : m # ""}

PlainOutcomes == {o \in OutlineOutcomes : o.kind \in {"ok", "network"}}

FairNext ==
    \/ \E g \in FilledGoals, m \in ChosenModels : HandleGenerate(g, m)
    \/ \E o \in PlainOutcomes : OutlineResolve(o)
    \/ Back
    \/ \E w \in 1..NumWeeks : ToggleWeekExpand(w)
    \/ \E r \in BagToSet(weekFetches) : WeekFetchResolves(r)
    \/ \E w \in 1..NumWeeks, d \in 1..NumDays : LoadDayContent(w, d)
    \/ \E r \in BagToSet(dayFetches) : DayFetchResolves(r)
    \/ ToastTimeout

\* The program under the assumption that the network answers: every pending
\* week-detail request gets its response or its failure, after which the
\* event loop runs the continuation of toggleWeekExpand.
FairSpec ==
    /\ Init
    /\ [][FairNext]_vars
    /\ \A r \in WeekFetchIds : WF_vars(WeekFetchResolves(r))

\* ============================================================== properties
\* The course objects that still exist, and their weeks.
LiveCourses == {c \in 1..Len(courses) : courses[c] # Collected}

WeekIndices(c) == 1..Len(courses[c].weeks)

DayIndices(c, i) ==
    IF HasDays(courses[c].weeks[i]) THEN 1..Len(DaysOf(courses[c].weeks[i])) ELSE {}

\* Pending week requests of week i of course c; pending day requests of it.
PendingWeekFetches(c, i) == CopiesIn(WeekFetch(c, i), weekFetches)

PendingDayFetches(c, i) ==
    {r \in BagToSet(dayFetches) : r.course = c /\ r.index = i}

\* C1: at most one week-detail request is in flight per week of a course: a
\* toggle on a week whose request is still pending issues no second one.
C1_OneWeekFetchInFlight ==
    \A c \in LiveCourses : \A i \in WeekIndices(c) : PendingWeekFetches(c, i) <= 1

\* C2: a week's _days is assigned at most once: no week-detail response is
\* stored in a week that already has its _days, so the week keeps the Day
\* records it got first.
C2_DaysAssignedOnce ==
    [][\A c \in LiveCourses : \A i \in WeekIndices(c) :
          HasDays(courses[c].weeks[i]) =>
              ~(\E days \in WeekDaysResponses : WeekFetchSuccess(WeekFetch(c, i), days))
      ]_vars

\* C3: every expanded week has its _days.
C3_ExpandedHasDays ==
    \A c \in LiveCourses : \A i \in WeekIndices(c) :
        courses[c].weeks[i]._expanded => HasDays(courses[c].weeks[i])

\* C3's case: a week of the current course is expanded, after its days came.
C3_Witness ==
    /\ currentCourse # 0
    /\ \E i \in WeekIndices(currentCourse) : courses[currentCourse].weeks[i]._expanded

\* C4: a loaded day stays loaded and keeps its detail fields, whatever
\* happens next, for as long as its course exists.
C4_LoadedDayIsStable ==
    [][\A c \in LiveCourses : \A i \in WeekIndices(c) : \A j \in DayIndices(c, i) :
          (DaysOf(courses[c].weeks[i])[j]._loaded /\ courses'[c] # Collected) =>
              /\ HasDays(courses'[c].weeks[i])
              /\ j <= Len(DaysOf(courses'[c].weeks[i]))
              /\ DaysOf(courses'[c].weeks[i])[j] = DaysOf(courses[c].weeks[i])[j]
      ]_vars

\* Day dayNum of week weekNum of course c is there and loaded.
DayIsLoaded(c, weekNum, dayNum) ==
    \E i \in WeekIndices(c) : \E j \in DayIndices(c, i) :
        /\ courses[c].weeks[i].week = weekNum
        /\ DaysOf(courses[c].weeks[i])[j].day = dayNum
        /\ DaysOf(courses[c].weeks[i])[j]._loaded

\* C5: a load click on a day that is loaded changes nothing: no request, no
\* field of the day, no other state.
C5_LoadOfLoadedDayIsNoOp ==
    [][\A w \in 1..NumWeeks : \A d \in 1..NumDays :
          (LoadDayContent(w, d) /\ DayIsLoaded(currentCourse, w, d)) => UNCHANGED vars
      ]_vars

\* C5's case: the card of a loaded day of the current course is on the page,
\* where a click on it runs loadDayContent (and leaves this very state).
C5_Witness ==
    /\ "courseView" \in active
    /\ \E id \in DayCardIds : DayIsLoaded(currentCourse, id[1], id[2])

\* C6: a toggle on a week that has its _days makes no request; it flips the
\* week's _expanded and nothing else of the course.
C6_CachedToggleMakesNoRequest ==
    [][\A w \in 1..NumWeeks :
          LET c == currentCourse
              i == FindWeekIndex(courses[c].weeks, w)
          IN (ToggleWeekExpand(w) /\ i # 0 /\ HasDays(courses[c].weeks[i])) =>
                /\ requests' = requests
                /\ weekFetches' = weekFetches
                /\ dayFetches' = dayFetches
                /\ courses' = [courses EXCEPT ![c].weeks[i]._expanded = ~@]
      ]_vars

\* C6's case: a week of the current course is collapsed and has its days
\* (a toggle collapsed it), and its card is there for the next toggle.
C6_Witness ==
    /\ "courseView" \in active
    /\ currentCourse # 0
    /\ \E i \in WeekIndices(currentCourse) :
          /\ HasDays(courses[currentCourse].weeks[i])
          /\ ~courses[currentCourse].weeks[i]._expanded
          /\ courses[currentCourse].weeks[i].week \in WeekCardNums

\* C7: no day-detail request of a week is in flight while a week-detail
\* request of that week is unresolved.
C7_NoDayFetchBeforeWeekResolved ==
    \A r \in BagToSet(dayFetches) : PendingWeekFetches(r.course, r.index) = 0

\* C8: a failed week-detail request leaves its week collapsed, not loading and
\* without _days, shows the error toast, keeps the view and makes no request.
C8_WeekFailureLeavesCollapsedNoData ==
    [][\A r \in BagToSet(weekFetches) :
          (WeekFetchFailure(r) /\ courses'[r.course] # Collected) =>
              LET week == courses'[r.course].weeks[r.index]
              IN /\ ~week._loading
                 /\ ~week._expanded
                 /\ ~HasDays(week)
                 /\ toast' = ShowToast(MsgWeekFailed, TRUE)
                 /\ active' = active
                 /\ requests' = requests
      ]_vars

\* C9: a failed day-detail request leaves its day unloaded with its fields as
\* they were, shows the error toast and keeps the view; a load click on the
\* day then makes a new request.
C9_DayFailureLeavesUnloaded ==
    [][\A r \in BagToSet(dayFetches) :
          (DayFetchFailure(r) /\ r.live /\ courses'[r.course] # Collected) =>
              LET week == courses'[r.course].weeks[r.index]
                  day == DaysOf(week)[r.dayIndex]
              IN /\ ~day._loaded
                 /\ courses' = courses
                 /\ toast' = ShowToast(MsgDayFailed, TRUE)
                 /\ active' = active
                 /\ LoadDayBranch(courses'[r.course].weeks, week.week, day.day) = "fetch"
      ]_vars

\* The outline request ended without a usable response.
OutlineFailures == {o \in OutlineOutcomes : o.kind \in {"http", "network"}}

\* C10 as claimed: after a failed outline generation the view is landing, the
\* current course is the one before, and the error toast shows the body's
\* 'detail' if there is one, else a message made from the status.
C10_FailureToastIsDetailOrStatus ==
    [][\A o \in OutlineFailures :
          OutlineResolve(o) =>
              /\ active' = {"landing"}
              /\ currentCourse' = currentCourse /\ courses' = courses
              /\ toast'.visible /\ toast'.isError
              /\ IF o.kind = "http" /\ o.detail # Undefined
                 THEN toast'.message = o.detail
                 ELSE IF o.kind = "http"
                 THEN toast'.message = StatusText(o.status)
                 ELSE toast'.message \in {StatusText(st) : st \in HttpStatuses}
      ]_vars

\* C10 as the code has it: the same, but a request that got no response has
\* no status, and the toast shows the message of the fetch error, or the
\* general fallback when that message is empty.
C10_FailureToast ==
    [][\A o \in OutlineFailures :
          OutlineResolve(o) =>
              /\ active' = {"landing"}
              /\ currentCourse' = currentCourse /\ courses' = courses
              /\ toast'.visible /\ toast'.isError
              /\ toast'.message =
                    IF o.kind = "http"
                    THEN IF o.detail # Undefined THEN o.detail ELSE StatusText(o.status)
                    ELSE IF o.message # "" THEN o.message ELSE MsgOutlineFallback
      ]_vars

\* C10's case: a generation failed with a 'detail' while a course was current.
C10_Witness ==
    /\ active = {"landing"}
    /\ currentCourse # 0
    /\ toast = ShowToast("model not found", TRUE)

\* The goal field holds nothing but white space.
IsBlank(g) == \A k \in 1..Len(g) : g[k] = Space

\* #model's value when the model list is empty or could not be loaded.
NoModelValues ==
    { SelectValue(LoadOllamaModels(o)) :
        o \in {x \in ModelsOutcomes : ~x.ok \/ x.models = <<>>} }

\* C11: a submit with a blank goal, or with no model selected (as when the
\* model list is empty or could not be loaded), makes no outline request,
\* leaves the view, the current course and the timeline as they are, and
\* only shows a notification.
C11_InvalidSubmitOnlyNotifies ==
    [][\A g \in GoalInputs, m \in ModelInputs :
          (HandleGenerate(g, m) /\ (IsBlank(g) \/ m \in NoModelValues)) =>
              /\ requests' = requests
              /\ outlineFetch' = outlineFetch
              /\ active' = active
              /\ currentCourse' = currentCourse /\ courses' = courses
              /\ timeline' = timeline
              /\ weekFetches' = weekFetches /\ dayFetches' = dayFetches
              /\ toast'.visible
              /\ toast'.message = IF IsBlank(g) THEN MsgNoGoal ELSE MsgNoModel
      ]_vars

\* C11's case: with a course current, a submit on the landing view was turned
\* down for its blank goal, nothing pending.
C11_Witness ==
    /\ active = {"landing"}
    /\ currentCourse # 0
    /\ outlineFetch = <<>>
    /\ toast = ShowToast(MsgNoGoal, TRUE)

\* Heap `after` is heap `before` but for day j of week i of course c, and for
\* course objects that were freed.
OnlyDayDiffers(before, after, c, i, j) ==
    /\ Len(after) = Len(before)
    /\ \A k \in 1..Len(before) :
          \/ after[k] = Collected
          \/ IF k = c
             THEN after[k] = [before[k] EXCEPT
                                !.weeks[i]._days[1][j] = after[k].weeks[i]._days[1][j]]
             ELSE after[k] = before[k]

\* C12: a day load touches only its own Day record: the click changes no
\* course data at all, and the successful completion changes nothing but
\* the day the request was made for -- no week's _expanded, _loading or
\* _days membership, no field of another day.
C12_DayLoadTouchesOnlyItsDay ==
    [][/\ \A w \in 1..NumWeeks : \A d \in 1..NumDays :
             LoadDayContent(w, d) => courses' = courses
       /\ \A r \in BagToSet(dayFetches) : \A det \in DayDetails :
             DayFetchSuccess(r, det) =>
                 IF r.live
                 THEN OnlyDayDiffers(courses, courses', r.course, r.index, r.dayIndex)
                 ELSE \A k \in 1..Len(courses) :
                          courses'[k] = Collected \/ courses'[k] = courses[k]
      ]_vars

\* C12's case: in an expanded week of the current course one day has been
\* loaded and another has not.
C12_Witness ==
    /\ currentCourse # 0
    /\ \E i \in WeekIndices(currentCourse) :
          /\ courses[currentCourse].weeks[i]._expanded
          /\ ~courses[currentCourse].weeks[i]._loading
          /\ \E j, k \in DayIndices(currentCourse, i) :
                /\ DaysOf(courses[currentCourse].weeks[i])[j]._loaded
                /\ ~DaysOf(courses[currentCourse].weeks[i])[k]._loaded

\* C13: a week or day response that arrives after its course was replaced by
\* a newly generated one leaves the new course's data as it is, and the
\* timeline displayed afterwards shows the weeks of the current course, not
\* those of the replaced one.
C13_StaleResponseLeavesCurrentCourse ==
    [][/\ \A r \in BagToSet(weekFetches) :
             (WeekFetchResolves(r) /\ r.course # currentCourse) =>
                 /\ courses'[currentCourse] = courses[currentCourse]
                 /\ timeline'.course = currentCourse
       /\ \A r \in BagToSet(dayFetches) :
             (DayFetchResolves(r) /\ r.course # currentCourse /\ timeline.course = currentCourse) =>
                 /\ courses'[currentCourse] = courses[currentCourse]
                 /\ timeline'.course = currentCourse
      ]_vars

\* C14: a notification is not hidden by the timer of an earlier one.  All
\* timers have the same delay, so they fire in the order they were started:
\* while more than one is pending, the one that fires belongs to an earlier
\* notification than the one displayed, which must stay visible.
C14_EarlierTimerDoesNotHideToast ==
    [][(ToastTimeout /\ timers > 1) => toast'.visible = toast.visible]_vars

\* C15: exactly one of the views landing, loading, courseView is active.
C15_ExactlyOneViewActive ==
    /\ active \subseteq Pages
    /\ Cardinality(active) = 1

\* C15's case: the views have been switched several times -- a course was
\* generated, left with the back button, and a new generation is under way.
C15_Witness ==
    /\ active = {"loading"}
    /\ currentCourse # 0
    /\ outlineFetch # <<>>

C17_NotLoadingAndExpanded ==
    \A c \in LiveCourses : \A i \in WeekIndices(c) :
        ~(courses[c].weeks[i]._loading /\ courses[c].weeks[i]._expanded)

\* C17's case: a week was toggled again while its request was pending; one
\* response has come and expanded it, the other request is still in flight.
C17_Witness ==
    \E c \in LiveCourses : \E i \in WeekIndices(c) :
        /\ courses[c].weeks[i]._expanded
        /\ PendingWeekFetches(c, i) > 0

\* Week i of course c is in Loading; its loading indicator is displayed.
WeekIsLoading(c, i) ==
    /\ c \in LiveCourses
    /\ i \in WeekIndices(c)
    /\ courses[c].weeks[i]._loading

WeekSpinnerShown(c, i) ==
    /\ timeline.course = c
    /\ i <= Len(timeline.cards)
    /\ timeline.cards[i].spinner

\* Week i of course c is not in Loading and shows no loading indicator.
WeekIsQuiet(c, i) == ~WeekIsLoading(c, i) /\ ~WeekSpinnerShown(c, i)

\* C18: if every week-detail request resolves, a week in Loading gets out of
\* it, with its loading indicator gone from the timeline: no week stays in
\* Loading for ever.  (~Q ~> Q, written in the equivalent form []<>Q.)
C18_LoadingEnds ==
    \A r \in WeekFetchIds : []<>WeekIsQuiet(r.course, r.index)

\* C18's case: a week is in Loading with its indicator displayed.
C18_Witness ==
    \E r \in WeekFetchIds :
        /\ WeekIsLoading(r.course, r.index)
        /\ WeekSpinnerShown(r.course, r.index)
        /\ PendingWeekFetches(r.course, r.index) > 0

\* Pending day-detail requests of day j of week i of course c, whether or not
\* the Day object they hold is still in the week.
PendingDayFetchCount(c, i, j) ==
    CopiesIn(DayFetch(c, i, j, TRUE), dayFetches)
    + CopiesIn(DayFetch(c, i, j, FALSE), dayFetches)

\* C19: at most one day-detail request is in flight per day of a week: a load
\* click on a day whose request is pending makes no second one.
C19_OneDayFetchInFlight ==
    \A r \in BagToSet(dayFetches) : PendingDayFetchCount(r.course, r.index, r.dayIndex) <= 1

\* A day-detail request of day dayNum of week weekNum is in flight.
DayFetchInFlight(weekNum, dayNum) ==
    \E r \in BagToSet(dayFetches) :
        LET week == courses[r.course].weeks[r.index]
        IN /\ week.week = weekNum
           /\ DaysOf(week)[r.dayIndex].day = dayNum

\* C20: a day card shows "Loading content..." only while a day-detail request
\* of that day is in flight; once the request has resolved, with success or
\* with failure, the card shows no indicator.
C20_DaySpinnerOnlyWhileInFlight ==
    \A i \in 1..Len(timeline.cards) : \A j \in 1..Len(timeline.cards[i].days) :
        timeline.cards[i].days[j].spinner =>
            DayFetchInFlight(timeline.cards[i].week, timeline.cards[i].days[j].day)

====
